---- MODULE Spec2Model ----
(***************************************************************************)
(* Model of the episodic training engine of synbols-benchmarks:            *)
(*   - generation/trainval.py   : the resumable train/validate loop,       *)
(*   - few_shot/models/ProtoNet.py : the episodic trainer/evaluator,       *)
(*   - classification/backbones : the Conv4 stride schedule, get_backbone. *)
(*                                                                         *)
(* Abstractions.  Backbone parameters are a version number: every          *)
(* optimizer.step() yields the next version.  The outcome of a forward     *)
(* pass (loss, number of correct query predictions) is an input carried by *)
(* the episode.  Python floats are exact rationals [n, d] in lowest terms. *)
(* hu.torch_save and hu.save_pkl each replace their file in one step.      *)
(* Runs are started with reset=False.                                      *)
(***************************************************************************)
EXTENDS Integers, Sequences, FiniteSets, TLC

VARIABLES
    pc,           \* position of the trainval process ("off" when no process runs)
    max_epoch,    \* exp_dict['max_epoch']
    e,            \* loop variable of trainval
    s_epoch,      \* first epoch of this run
    score_list,   \* in-memory score history
    score_dict,   \* record under construction for epoch e
    model,        \* the ProtoNet object (backbone, optimizer, scheduler)
    disk_model,   \* contents of model.pth, or NoFile
    disk_scores,  \* contents of score_list.pkl, or NoFile
    pth_epoch,    \* history: the epoch at whose end model.pth was last written
    crashes,      \* interruptions so far
    loader,       \* episodes the running *_on_loader call iterates over
    call,         \* locals of the running *_on_loader call
    trace,        \* events of the running *_on_loader call, in order
    ret,          \* value returned by the last *_on_loader call
    conv,         \* a Conv4 under construction
    factory       \* a get_backbone call: its exp_dict and its outcome

vars == << pc, max_epoch, e, s_epoch, score_list, score_dict, model,
           disk_model, disk_scores, pth_epoch, crashes, loader, call, trace, ret, conv, factory >>

trainvalVars == << pc, max_epoch, e, s_epoch, score_list, score_dict,
                   disk_model, disk_scores, pth_epoch, crashes >>
callVars == << loader, call, trace, ret >>

----------------------------------------------------------------------------
(* Bounds and input domains *)

MaxEpoch == 3
MaxCrashes == 2
MaxEpisodes == 2
MaxShot == 2
MaxQuery == 2
MaxLoss == 2
NClasses == 2
Patience == 1
MaxAggQuery == 4
MaxSide == 66

\* A file of the experiment directory: absent, or holding data
NoFile == [exists |-> FALSE]
File(x) == [exists |-> TRUE, data |-> x]

\* No value returned (the call has not returned, or it raised)
NoResult == [none |-> TRUE]

----------------------------------------------------------------------------
(* Exact arithmetic standing for Python floats *)

RECURSIVE Gcd(_, _)
Gcd(a, b) == IF b = 0 THEN a ELSE Gcd(b, a % b)

Rat(n, d) == LET g == Gcd(n, d) IN [n |-> n \div g, d |-> d \div g]

RInt(k) == [n |-> k, d |-> 1]

RAdd(x, y) == Rat(x.n * y.d + y.n * x.d, x.d * y.d)

RMulInt(x, k) == Rat(x.n * k, x.d)

RDivInt(x, k) == Rat(x.n, x.d * k)

\* float('inf'), the initial best of a mode='min' plateau scheduler
Inf == [n |-> 1, d |-> 0]

----------------------------------------------------------------------------
(* few_shot/models/ProtoNet.py *)

\* An episode as the loader yields it: realized shapes (ss, qs), declared
\* sizes, and the outcome of its forward pass.
Episodes ==
    [ ss : 1..MaxShot, qs : 1..MaxQuery, nclasses : {NClasses},
      support_size : 1..MaxShot, query_size : 1..MaxQuery,
      loss : 1..MaxLoss, correct : 0..(MaxQuery * NClasses) ]

\* What a forward pass can produce: at most qs*nclasses correct predictions.
Realizable(ep) == ep.correct <= ep.qs * ep.nclasses

\* Mutant of ShapeMismatch: only the support count is compared
ShapeMismatchSupportOnly(ep) == ep.ss # ep.support_size

\* line 97: the condition under which val_on_loader raises
ShapeMismatch(ep) ==
    ep.ss # ep.support_size \/ ep.qs # ep.query_size

WellFormed(ep) == Realizable(ep) /\ ~ShapeMismatch(ep)

\* ProtoNet.__init__: fresh backbone, optimizer and plateau scheduler.
NewModel ==
    [ weights   |-> 0,
      grad      |-> << >>,
      training  |-> TRUE,
      optimizer |-> [lr |-> 0, steps |-> 0],
      scheduler |-> [best |-> Inf, num_bad_epochs |-> 0, last_epoch |-> 0] ]

\* Mutant of ZeroGrad: the gradients are left as they are
ZeroGradKeeps(m) == m

\* optimizer.zero_grad()
ZeroGrad(m) == [m EXCEPT !.grad = << >>]

\* loss.backward(): the gradient of episode i is added to .grad
Backward(m, i) == [m EXCEPT !.grad = Append(@, i)]

\* optimizer.step(): the next parameter version, one more optimizer update
OptimizerStep(m) ==
    [m EXCEPT !.weights = @ + 1, !.optimizer.steps = @ + 1]

\* ReduceLROnPlateau(mode='min', threshold=1e-4 relative)
IsBetter(a, best) ==
    best.d = 0 \/ a.n * best.d * 10000 < best.n * a.d * 9999

\* scheduler.step(metric) with factor=0.1, patience=exp_dict['patience'];
\* optimizer.lr counts the reductions applied to the learning rate.
SchedulerStep(m, metric) ==
    LET s      == m.scheduler
        better == IsBetter(metric, s.best)
        nb     == IF better THEN 0 ELSE s.num_bad_epochs + 1
        reduce == nb > Patience
    IN  [m EXCEPT
            !.scheduler = [ best           |-> IF better THEN metric ELSE s.best,
                            num_bad_epochs |-> IF reduce THEN 0 ELSE nb,
                            last_epoch     |-> s.last_epoch + 1 ],
            !.optimizer.lr = IF reduce THEN @ + 1 ELSE @]

\* Locals of train_on_loader / val_on_loader at entry (lines 35-37, 81-83)
NewLocals == [_loss |-> RInt(0), _accuracy |-> RInt(0), _total |-> 0]

\* lines 67-68: _loss += float(loss); _total += 1
TrainAddLoss(c, ep) ==
    [c EXCEPT !._loss = RAdd(@, RInt(ep.loss)), !._total = @ + 1]

\* lines 73-74: _accuracy += the episode's fraction of correct predictions
TrainAddAccuracy(c, ep) ==
    [c EXCEPT !._accuracy = RAdd(@, Rat(ep.correct, ep.qs * ep.nclasses))]

\* lines 67-68 and 74: one episode's contribution in train_on_loader
TrainAccumulate(c, ep) == TrainAddAccuracy(TrainAddLoss(c, ep), ep)

\* lines 76-77
TrainResult(c) ==
    [ train_loss     |-> RDivInt(c._loss, c._total),
      train_accuracy |-> RDivInt(RMulInt(c._accuracy, 100), c._total) ]

\* Mutant of ValAccumulate: the eval epoch averages per episode, as the
\* train epoch does
ValAccumulateUnweighted(c, ep) ==
    [ _loss     |-> RAdd(c._loss, RInt(ep.loss)),
      _accuracy |-> RAdd(c._accuracy, Rat(ep.correct, ep.qs * ep.nclasses)),
      _total    |-> c._total + 1 ]

\* lines 114-116: one episode's contribution in val_on_loader
ValAccumulate(c, ep) ==
    [ _loss     |-> RAdd(c._loss, RInt(ep.loss * ep.qs * ep.nclasses)),
      _accuracy |-> RAdd(c._accuracy, RInt(ep.correct)),
      _total    |-> c._total + ep.qs * ep.nclasses ]

\* line 118: the argument of scheduler.step
ValMeanLoss(c) == RDivInt(c._loss, c._total)

\* lines 120-121
ValResult(c) ==
    [ val_loss     |-> RDivInt(c._loss, c._total),
      val_accuracy |-> RMulInt(RDivInt(c._accuracy, c._total), 100) ]

\* One iteration of the loop of train_on_loader (lines 41-74)
TrainEpisode(f, ep, i) ==
    [ model  |-> OptimizerStep(Backward(ZeroGrad(f.model), i)),
      locals |-> TrainAccumulate(f.locals, ep) ]

RECURSIVE TrainLoop(_, _, _)
TrainLoop(f, ld, i) ==
    IF i > Len(ld) THEN f ELSE TrainLoop(TrainEpisode(f, ld[i], i), ld, i + 1)

\* train_on_loader(loader) as one call: the division by _total raises
\* ZeroDivisionError on an empty loader.
TrainOnLoader(m, ld) ==
    LET f == TrainLoop([model  |-> [m EXCEPT !.training = TRUE],
                        locals |-> NewLocals], ld, 1)
    IN  IF f.locals._total = 0
        THEN [status |-> "raised", model |-> f.model, ret |-> NoResult]
        ELSE [status |-> "ok", model |-> f.model, ret |-> TrainResult(f.locals)]

\* The loop of val_on_loader (lines 87-116); stops at the first episode whose
\* realized shape differs from its declared sizes.
RECURSIVE ValLoop(_, _, _)
ValLoop(f, ld, i) ==
    IF i > Len(ld) THEN f
    ELSE IF ShapeMismatch(ld[i]) THEN [f EXCEPT !.raised = TRUE]
    ELSE ValLoop([f EXCEPT !.locals = ValAccumulate(@, ld[i])], ld, i + 1)

\* val_on_loader(loader) as one call
ValOnLoader(m, ld) ==
    LET m0 == [m EXCEPT !.training = FALSE]
        f  == ValLoop([locals |-> NewLocals, raised |-> FALSE], ld, 1)
    IN  IF f.raised \/ f.locals._total = 0
        THEN [status |-> "raised", model |-> m0, ret |-> NoResult]
        ELSE [status |-> "ok",
              model  |-> SchedulerStep(m0, ValMeanLoss(f.locals)),
              ret    |-> ValResult(f.locals)]

\* Mutant of GetStateDict: the payload leaves the scheduler state out
GetStateDictNoScheduler(m) ==
    [ model     |-> m.weights,
      optimizer |-> m.optimizer,
      scheduler |-> [best |-> Inf, num_bad_epochs |-> 0, last_epoch |-> 0] ]

\* get_state_dict (lines 126-131)
GetStateDict(m) ==
    [ model     |-> m.weights,
      optimizer |-> m.optimizer,
      scheduler |-> m.scheduler ]

\* set_state_dict (lines 133-136)
SetStateDict(m, state_dict) ==
    [m EXCEPT !.weights   = state_dict.model,
              !.optimizer = state_dict.optimizer,
              !.scheduler = state_dict.scheduler]

----------------------------------------------------------------------------
(* generation/trainval.py *)

Loaders(S, n) == UNION { [1..k -> S] : k \in 0..n }

\* The loaders of a run.  Each epoch the shuffled train loader yields one of
\* these episode sequences (none, one or two 1-shot 1-query episodes) and the
\* val loader one of those (a low loss, a high loss, or a val set too small
\* for the declared query size).
RunEpisode(loss, correct, query_size) ==
    [ ss |-> 1, qs |-> 1, nclasses |-> NClasses,
      support_size |-> 1, query_size |-> query_size,
      loss |-> loss, correct |-> correct ]

RunTrainLoaders ==
    { << >>,
      << RunEpisode(1, 0, 1) >>,
      << RunEpisode(1, 0, 1), RunEpisode(2, NClasses, 1) >> }

RunValLoaders ==
    { << RunEpisode(1, NClasses, 1) >>,
      << RunEpisode(2, 0, 1) >>,
      << RunEpisode(1, 0, 2) >> }

\* Mutant of ResumeEpoch: resumes at the last recorded epoch itself
ResumeEpochSame(sl) == sl[Len(sl)]["epoch"]

\* line 87
ResumeEpoch(sl) == sl[Len(sl)]["epoch"] + 1

\* model.load_state_dict(state_dict) of line 85: the model class trainval
\* drives restores what its get_state_dict saved.
LoadStateDict(m, state_dict) == SetStateDict(m, state_dict)

\* In-memory state of a process that is not running
NoProcess ==
    /\ model' = NewModel
    /\ score_list' = << >>
    /\ score_dict' = << >>
    /\ e' = 0
    /\ s_epoch' = 0

\* lines 21-95: a process starts (reset=False), builds the model and either
\* resumes from the persisted artifacts or starts fresh.
Startup ==
    /\ pc \in {"off", "done"}
    /\ IF disk_scores.exists
       THEN IF ~disk_model.exists
            THEN \* hu.torch_load raises: the process dies
                 /\ pc' = "off"
                 /\ NoProcess
            ELSE /\ model' = LoadStateDict(NewModel, disk_model.data)
                 /\ score_list' = disk_scores.data
                 /\ s_epoch' = ResumeEpoch(disk_scores.data)
                 /\ e' = ResumeEpoch(disk_scores.data)
                 /\ score_dict' = << >>
                 /\ pc' = "loop"
       ELSE /\ model' = NewModel
            /\ score_list' = << >>
            /\ s_epoch' = 0
            /\ e' = 0
            /\ score_dict' = << >>
            /\ pc' = "loop"
    /\ UNCHANGED << max_epoch, disk_model, disk_scores, pth_epoch, crashes >>
    /\ UNCHANGED << callVars, conv, factory >>

\* line 97-98 and 128: the head of the for loop
LoopHead ==
    /\ pc = "loop"
    /\ IF e < max_epoch
       THEN pc' = "train" /\ score_dict' = << >>
       ELSE pc' = "done" /\ UNCHANGED score_dict
    /\ UNCHANGED << max_epoch, e, s_epoch, score_list, model, disk_model,
                    disk_scores, pth_epoch, crashes, callVars, conv, factory >>

\* line 101: score_dict.update(model.train_on_loader(e, train_loader));
\* an exception ends the process.
Train ==
    /\ pc = "train"
    /\ \E ld \in RunTrainLoaders :
         LET r == TrainOnLoader(model, ld) IN
         IF r.status = "raised"
         THEN pc' = "off" /\ NoProcess
         ELSE /\ model' = r.model
              /\ score_dict' = r.ret @@ score_dict
              /\ pc' = "val"
              /\ UNCHANGED << e, s_epoch, score_list >>
    /\ UNCHANGED << max_epoch, disk_model, disk_scores, pth_epoch, crashes,
                    callVars, conv, factory >>

\* lines 104-105: score_dict.update(model.val_on_loader(e, val_loader));
\* score_dict["epoch"] = e
Val ==
    /\ pc = "val"
    /\ \E ld \in RunValLoaders :
         LET r == ValOnLoader(model, ld) IN
         IF r.status = "raised"
         THEN pc' = "off" /\ NoProcess
         ELSE /\ model' = r.model
              /\ score_dict' = [epoch |-> e] @@ r.ret @@ score_dict
              /\ pc' = "append"
              /\ UNCHANGED << e, s_epoch, score_list >>
    /\ UNCHANGED << max_epoch, disk_model, disk_scores, pth_epoch, crashes,
                    callVars, conv, factory >>

\* line 115: score_list += [score_dict]
AppendScore ==
    /\ pc = "append"
    /\ score_list' = Append(score_list, score_dict)
    /\ pc' = "save_model"
    /\ UNCHANGED << max_epoch, e, s_epoch, score_dict, model, disk_model,
                    disk_scores, pth_epoch, crashes, callVars, conv, factory >>

\* line 120: hu.torch_save(model_path, model.get_state_dict())
SaveModel ==
    /\ pc = "save_model"
    /\ disk_model' = File(GetStateDict(model))
    /\ pth_epoch' = e
    /\ pc' = "save_scores"
    /\ UNCHANGED << max_epoch, e, s_epoch, score_list, score_dict, model,
                    disk_scores, crashes, callVars, conv, factory >>

\* Mutant of SaveScores: persists only the newest record
SaveScoresLastOnly ==
    /\ pc = "save_scores"
    /\ disk_scores' = File(<< score_dict >>)
    /\ e' = e + 1
    /\ pc' = "loop"
    /\ UNCHANGED << max_epoch, s_epoch, score_list, score_dict, model,
                    disk_model, pth_epoch, crashes, callVars, conv, factory >>

\* line 121: hu.save_pkl(score_list_path, score_list); then the next e
SaveScores ==
    /\ pc = "save_scores"
    /\ disk_scores' = File(score_list)
    /\ e' = e + 1
    /\ pc' = "loop"
    /\ UNCHANGED << max_epoch, s_epoch, score_list, score_dict, model,
                    disk_model, pth_epoch, crashes, callVars, conv, factory >>

\* The process is interrupted at any point; what is on disk stays.
Crash ==
    /\ pc \notin {"off", "done"}
    /\ crashes < MaxCrashes
    /\ crashes' = crashes + 1
    /\ pc' = "off"
    /\ NoProcess
    /\ UNCHANGED << max_epoch, disk_model, disk_scores, pth_epoch,
                    callVars, conv, factory >>

NoCall ==
    /\ loader = << >>
    /\ call = [fn |-> "none"]
    /\ trace = << >>
    /\ ret = NoResult

NoConv == conv = [in_h |-> 0, in_w |-> 0]

NoFactory == factory = [at |-> "none"]

Init ==
    /\ pc = "off"
    /\ max_epoch \in 0..MaxEpoch
    /\ e = 0
    /\ s_epoch = 0
    /\ score_list = << >>
    /\ score_dict = << >>
    /\ model = NewModel
    /\ disk_model = NoFile
    /\ disk_scores = NoFile
    /\ pth_epoch = -1
    /\ crashes = 0
    /\ NoCall
    /\ NoConv
    /\ NoFactory

Next ==
    \/ Startup
    \/ LoopHead
    \/ Train
    \/ Val
    \/ AppendScore
    \/ SaveModel
    \/ SaveScores
    \/ Crash

Spec == Init /\ [][Next]_vars

----------------------------------------------------------------------------
(* One call of train_on_loader or val_on_loader, statement by statement *)

\* Shapes of the episodes a loader yields: 1-shot with 1 or 2 queries per
\* class, or a dataset too small for the declared support or query size.
EpochShapes ==
    { [ss |-> 1, support_size |-> 1, qs |-> 1, query_size |-> 1],
      [ss |-> 1, support_size |-> 1, qs |-> 2, query_size |-> 2],
      [ss |-> 1, support_size |-> 2, qs |-> 1, query_size |-> 1],
      [ss |-> 1, support_size |-> 1, qs |-> 1, query_size |-> 2] }

EpochEpisodes ==
    { ep \in Episodes :
        /\ [ss |-> ep.ss, support_size |-> ep.support_size,
            qs |-> ep.qs, query_size |-> ep.query_size] \in EpochShapes
        /\ ep.correct \in {0, ep.qs * ep.nclasses} }

EpochTrainLoaders ==
    Loaders({ ep \in EpochEpisodes : WellFormed(ep) }, MaxEpisodes)

EpochValLoaders == Loaders(EpochEpisodes, MaxEpisodes)

\* The trainer after k epochs that all had the same validation loss: the
\* first sets the scheduler's best, each later one counts as a bad epoch.
RECURSIVE AfterEpochs(_)
AfterEpochs(k) ==
    IF k = 0 THEN NewModel
    ELSE LET ep == RunEpisode(1, 0, 1)
             m  == AfterEpochs(k - 1)
         IN  ValOnLoader(TrainOnLoader(m, << ep >>).model, << ep >>).model

\* The trainer a call finds: fresh, or after some epochs, up to the point
\* where one more bad epoch exhausts the scheduler's patience.
EntryModels == { AfterEpochs(k) : k \in 0..(Patience + 1) }

Event(name) == << name, call.i >>

Goto(at) == [call EXCEPT !.at = at]

\* lines 34-40
TrainEnter ==
    /\ call.fn = "none"
    /\ \E ld \in EpochTrainLoaders : loader' = ld
    /\ call' = [fn |-> "train", at |-> "for", i |-> 0, locals |-> NewLocals,
                entry |-> model, arg |-> NoResult]
    /\ model' = [model EXCEPT !.training = TRUE]
    /\ trace' = << >>
    /\ ret' = NoResult
    /\ UNCHANGED << trainvalVars, conv, factory >>

\* line 41 (and the boilerplate of lines 44-57)
TrainNext ==
    /\ call.fn = "train" /\ call.at = "for"
    /\ IF call.i < Len(loader)
       THEN call' = [call EXCEPT !.i = @ + 1, !.at = "zero_grad"]
       ELSE call' = Goto("return")
    /\ UNCHANGED << model, loader, trace, ret, trainvalVars, conv, factory >>

\* line 60
TrainZeroGrad ==
    /\ call.fn = "train" /\ call.at = "zero_grad"
    /\ model' = ZeroGrad(model)
    /\ trace' = Append(trace, Event("zero_grad"))
    /\ call' = Goto("forward")
    /\ UNCHANGED << loader, ret, trainvalVars, conv, factory >>

\* lines 62-65
TrainForward ==
    /\ call.fn = "train" /\ call.at = "forward"
    /\ trace' = Append(trace, Event("forward"))
    /\ call' = Goto("loss")
    /\ UNCHANGED << model, loader, ret, trainvalVars, conv, factory >>

\* lines 66-68
TrainLoss ==
    /\ call.fn = "train" /\ call.at = "loss"
    /\ trace' = Append(trace, Event("loss"))
    /\ call' = [call EXCEPT !.locals = TrainAddLoss(@, loader[call.i]),
                            !.at = "backward"]
    /\ UNCHANGED << model, loader, ret, trainvalVars, conv, factory >>

\* line 69
TrainBackward ==
    /\ call.fn = "train" /\ call.at = "backward"
    /\ model' = Backward(model, call.i)
    /\ trace' = Append(trace, Event("backward"))
    /\ call' = Goto("optimizer.step")
    /\ UNCHANGED << loader, ret, trainvalVars, conv, factory >>

\* line 70
TrainOptimizerStep ==
    /\ call.fn = "train" /\ call.at = "optimizer.step"
    /\ model' = OptimizerStep(model)
    /\ trace' = Append(trace, Event("optimizer.step"))
    /\ call' = Goto("accuracy")
    /\ UNCHANGED << loader, ret, trainvalVars, conv, factory >>

\* lines 73-74
TrainAccuracy ==
    /\ call.fn = "train" /\ call.at = "accuracy"
    /\ call' = [call EXCEPT !.locals = TrainAddAccuracy(@, loader[call.i]),
                            !.at = "for"]
    /\ UNCHANGED << model, loader, trace, ret, trainvalVars, conv, factory >>

\* lines 76-77: the division raises ZeroDivisionError when no episode came
TrainReturn ==
    /\ call.fn = "train" /\ call.at = "return"
    /\ IF call.locals._total = 0
       THEN call' = Goto("raised") /\ UNCHANGED ret
       ELSE call' = Goto("returned") /\ ret' = TrainResult(call.locals)
    /\ UNCHANGED << model, loader, trace, trainvalVars, conv, factory >>

\* lines 79-86
ValEnter ==
    /\ call.fn = "none"
    /\ \E ld \in EpochValLoaders : loader' = ld
    /\ call' = [fn |-> "val", at |-> "for", i |-> 0, locals |-> NewLocals,
                entry |-> model, arg |-> NoResult]
    /\ model' = [model EXCEPT !.training = FALSE]
    /\ trace' = << >>
    /\ ret' = NoResult
    /\ UNCHANGED << trainvalVars, conv, factory >>

\* line 87 (and lines 90-95)
ValNext ==
    /\ call.fn = "val" /\ call.at = "for"
    /\ IF call.i < Len(loader)
       THEN call' = [call EXCEPT !.i = @ + 1, !.at = "check"]
       ELSE call' = Goto("scheduler.step")
    /\ UNCHANGED << model, loader, trace, ret, trainvalVars, conv, factory >>

\* lines 97-98
ValCheck ==
    /\ call.fn = "val" /\ call.at = "check"
    /\ trace' = Append(trace, Event("check"))
    /\ IF ShapeMismatch(loader[call.i])
       THEN call' = Goto("raised")
       ELSE call' = Goto("forward")
    /\ UNCHANGED << model, loader, ret, trainvalVars, conv, factory >>

\* lines 100-113
ValForward ==
    /\ call.fn = "val" /\ call.at = "forward"
    /\ trace' = Append(trace, Event("forward"))
    /\ call' = Goto("accumulate")
    /\ UNCHANGED << model, loader, ret, trainvalVars, conv, factory >>

\* Mutant of ValAccumulateStep: the scheduler is stepped inside the loop
ValAccumulateStepAndSchedule ==
    /\ call.fn = "val" /\ call.at = "accumulate"
    /\ trace' = Append(trace, Event("accumulate"))
    /\ call' = [call EXCEPT !.locals = ValAccumulate(@, loader[call.i]),
                            !.at = "for"]
    /\ model' = SchedulerStep(model, RInt(loader[call.i].loss))
    /\ UNCHANGED << loader, ret, trainvalVars, conv, factory >>

\* lines 114-116
ValAccumulateStep ==
    /\ call.fn = "val" /\ call.at = "accumulate"
    /\ trace' = Append(trace, Event("accumulate"))
    /\ call' = [call EXCEPT !.locals = ValAccumulate(@, loader[call.i]),
                            !.at = "for"]
    /\ UNCHANGED << model, loader, ret, trainvalVars, conv, factory >>

\* line 118: _loss / _total raises ZeroDivisionError when no episode came
ValSchedulerStep ==
    /\ call.fn = "val" /\ call.at = "scheduler.step"
    /\ IF call.locals._total = 0
       THEN /\ call' = Goto("raised")
            /\ UNCHANGED << model, trace >>
       ELSE /\ model' = SchedulerStep(model, ValMeanLoss(call.locals))
            /\ trace' = Append(trace, Event("scheduler.step"))
            /\ call' = [call EXCEPT !.arg = ValMeanLoss(call.locals),
                                    !.at = "return"]
    /\ UNCHANGED << loader, ret, trainvalVars, conv, factory >>

\* lines 120-121
ValReturn ==
    /\ call.fn = "val" /\ call.at = "return"
    /\ ret' = ValResult(call.locals)
    /\ call' = Goto("returned")
    /\ UNCHANGED << model, loader, trace, trainvalVars, conv, factory >>

InitEpoch ==
    /\ pc = "off"
    /\ max_epoch = 0
    /\ e = 0
    /\ s_epoch = 0
    /\ score_list = << >>
    /\ score_dict = << >>
    /\ model \in EntryModels
    /\ disk_model = NoFile
    /\ disk_scores = NoFile
    /\ pth_epoch = -1
    /\ crashes = 0
    /\ NoCall
    /\ NoConv
    /\ NoFactory

NextEpoch ==
    \/ TrainEnter
    \/ TrainNext
    \/ TrainZeroGrad
    \/ TrainForward
    \/ TrainLoss
    \/ TrainBackward
    \/ TrainOptimizerStep
    \/ TrainAccuracy
    \/ TrainReturn
    \/ ValEnter
    \/ ValNext
    \/ ValCheck
    \/ ValForward
    \/ ValAccumulateStep
    \/ ValSchedulerStep
    \/ ValReturn

SpecEpoch == InitEpoch /\ [][NextEpoch]_vars

----------------------------------------------------------------------------
(* The two epoch aggregations applied to the same episodes *)

\* Well-shaped 1-shot episodes with 1..MaxAggQuery queries per class; an
\* episode varies its loss or its number of correct predictions.
AggEpisodes ==
    { ep \in [ ss : {1}, qs : 1..MaxAggQuery, nclasses : {NClasses},
               support_size : {1}, query_size : 1..MaxAggQuery,
               loss : 1..MaxLoss, correct : 0..(MaxAggQuery * NClasses) ] :
        /\ WellFormed(ep)
        /\ ep.loss = 1 \/ ep.correct = 0 }

\* Loaders of one, two or three episodes
AggLengths == {1, 2, 3}

AggLoaders == UNION { [1..k -> AggEpisodes] : k \in AggLengths }

\* train_on_loader(loader)
AggTrain ==
    /\ call.fn = "aggregate" /\ call.at = "start"
    /\ LET r == TrainOnLoader(model, loader) IN
         /\ model' = r.model
         /\ ret' = [train |-> r.ret]
    /\ call' = Goto("trained")
    /\ UNCHANGED << loader, trace, trainvalVars, conv, factory >>

\* val_on_loader(loader)
AggVal ==
    /\ call.fn = "aggregate" /\ call.at = "trained"
    /\ LET r == ValOnLoader(model, loader) IN
         /\ model' = r.model
         /\ ret' = [train |-> ret.train, val |-> r.ret]
    /\ call' = Goto("validated")
    /\ UNCHANGED << loader, trace, trainvalVars, conv, factory >>

InitAgg ==
    /\ pc = "off"
    /\ max_epoch = 0
    /\ e = 0
    /\ s_epoch = 0
    /\ score_list = << >>
    /\ score_dict = << >>
    /\ model = NewModel
    /\ disk_model = NoFile
    /\ disk_scores = NoFile
    /\ pth_epoch = -1
    /\ crashes = 0
    /\ loader \in AggLoaders
    /\ call = [fn |-> "aggregate", at |-> "start"]
    /\ trace = << >>
    /\ ret = NoResult
    /\ NoConv
    /\ NoFactory

NextAgg ==
    \/ AggTrain
    \/ AggVal

SpecAgg == InitAgg /\ [][NextAgg]_vars

----------------------------------------------------------------------------
(* classification/backbones/__init__.py: Conv4 *)

Min(a, b) == IF a <= b THEN a ELSE b

\* Mutant of Strides: the thresholds are compared with > instead of >=
StridesStrict(in_h, in_w) ==
    LET in_size == Min(in_w, in_h)
        ratio   == in_size \div 4
    IN  IF ratio > 16 THEN << 2, 2, 2, 2 >>
        ELSE IF ratio > 8 THEN << 1, 2, 2, 2 >>
        ELSE IF ratio > 4 THEN << 1, 2, 2, 1 >>
        ELSE IF ratio > 2 THEN << 1, 2, 1, 1 >>
        ELSE << 1, 1, 1, 1 >>

\* lines 16-27
Strides(in_h, in_w) ==
    LET in_size == Min(in_w, in_h)
        ratio   == in_size \div 4
    IN  IF ratio >= 16 THEN << 2, 2, 2, 2 >>
        ELSE IF ratio >= 8 THEN << 1, 2, 2, 2 >>
        ELSE IF ratio >= 4 THEN << 1, 2, 2, 1 >>
        ELSE IF ratio >= 2 THEN << 1, 2, 1, 1 >>
        ELSE << 1, 1, 1, 1 >>

\* line 31: the output side of Conv2d(kernel 3, stride, padding 1)
ConvOut(n, stride) == (n + 2 * 1 - 3) \div stride + 1

\* Conv4.__init__ (lines 14-38)
Conv4Init ==
    /\ conv.at = "new"
    /\ conv' = [conv EXCEPT !.at = "built",
                            !.strides = Strides(conv.in_h, conv.in_w)]
    /\ UNCHANGED << trainvalVars, model, callVars, factory >>

\* Conv4.forward, one stage of the loop of lines 41-45
Conv4Stage ==
    /\ conv.at = "built"
    /\ conv.stage < 4
    /\ conv' = [conv EXCEPT
                  !.stage = @ + 1,
                  !.h = ConvOut(@, conv.strides[conv.stage + 1]),
                  !.w = ConvOut(@, conv.strides[conv.stage + 1])]
    /\ UNCHANGED << trainvalVars, model, callVars, factory >>

InitConv4 ==
    /\ pc = "off"
    /\ max_epoch = 0
    /\ e = 0
    /\ s_epoch = 0
    /\ score_list = << >>
    /\ score_dict = << >>
    /\ model = NewModel
    /\ disk_model = NoFile
    /\ disk_scores = NoFile
    /\ pth_epoch = -1
    /\ crashes = 0
    /\ NoCall
    /\ \E in_h \in 1..MaxSide, in_w \in 1..MaxSide :
         conv = [in_h |-> in_h, in_w |-> in_w, at |-> "new",
                 strides |-> << >>, stage |-> 0, h |-> in_h, w |-> in_w]
    /\ NoFactory

NextConv4 ==
    \/ Conv4Init
    \/ Conv4Stage

SpecConv4 == InitConv4 /\ [][NextConv4]_vars

----------------------------------------------------------------------------
(* classification/backbones/__init__.py: get_backbone                      *)
(*                                                                         *)
(* A module is the ordered list of its named children (torch's _modules).  *)
(* A child records its kind, its shape parameters and where its weights    *)
(* come from: "imagenet" (pretrained), "init" (freshly initialised) or     *)
(* "none" (no parameters).  An architecture name is a sequence of          *)
(* characters.  Assertions are enabled (the interpreter's default).        *)

MaxChannels == 4

MaxNumClasses == 2

NoModule == [arch |-> "none", children |-> << >>]

Layer(name, kind, nin, nout, kernel, stride, padding, bias, weights, modules) ==
    [name |-> name, kind |-> kind, nin |-> nin, nout |-> nout,
     kernel |-> kernel, stride |-> stride, padding |-> padding,
     bias |-> bias, weights |-> weights, modules |-> modules]

\* torch.nn.Conv2d(nin, nout, kernel_size, stride, padding, bias), fresh weights
Conv2d(name, nin, nout, kernel, stride, padding, bias) ==
    Layer(name, "Conv2d", nin, nout, kernel, stride, padding, bias, "init", << >>)

\* torch.nn.Linear(nin, nout), fresh weights
Linear(name, nin, nout) ==
    Layer(name, "Linear", nin, nout, 0, 0, 0, TRUE, "init", << >>)

\* a child without shape parameters of interest
Block(name, kind, weights) ==
    Layer(name, kind, 0, 0, 0, 0, 0, FALSE, weights, << >>)

\* torch.nn.Sequential(*modules): children are named by position
Sequential(name, modules) ==
    Layer(name, "Sequential", 0, 0, 0, 0, 0, FALSE, "none", modules)

\* class GAP
GAP(name) == Block(name, "GAP", "none")

HasChild(children, name) == \E i \in 1..Len(children) : children[i].name = name

\* module._modules[name] = layer: replaces the child of that name in place,
\* or appends it when there is none
SetChild(children, name, layer) ==
    IF HasChild(children, name)
    THEN [i \in 1..Len(children) |->
            IF children[i].name = name THEN layer ELSE children[i]]
    ELSE Append(children, layer)

Child(children, name) ==
    children[CHOOSE i \in 1..Len(children) : children[i].name = name]

Origin(pretrained) == IF pretrained THEN "imagenet" ELSE "init"

\* models.resnet18 / models.resnet50 (pretrained=...): conv1 takes 3 channels,
\* fc maps in_features to the 1000 ImageNet classes
TorchvisionResnet(pretrained, in_features) ==
    << Layer("conv1", "Conv2d", 3, 64, 7, 2, 3, FALSE, Origin(pretrained), << >>),
       Block("bn1", "BatchNorm2d", Origin(pretrained)),
       Block("relu", "ReLU", "none"),
       Block("maxpool", "MaxPool2d", "none"),
       Block("layer1", "Sequential", Origin(pretrained)),
       Block("layer2", "Sequential", Origin(pretrained)),
       Block("layer3", "Sequential", Origin(pretrained)),
       Block("layer4", "Sequential", Origin(pretrained)),
       Block("avgpool", "AdaptiveAvgPool2d", "none"),
       Layer("fc", "Linear", in_features, 1000, 0, 0, 0, TRUE,
             Origin(pretrained), << >>) >>

\* models.vgg16_bn(pretrained=...): features[0] takes 3 channels
TorchvisionVgg16Bn(pretrained) ==
    << Sequential("features",
         << Layer("0", "Conv2d", 3, 64, 3, 1, 1, TRUE, Origin(pretrained), << >>),
            Block("1:", "Sequential", Origin(pretrained)) >>),
       Block("avgpool", "AdaptiveAvgPool2d", "none"),
       Block("classifier", "Sequential", Origin(pretrained)) >>

\* WideResNet(depth, width, nclasses): its layers are not modelled
WideResNet(depth, width, nclasses) ==
    << Layer("body", "WideResNet", depth, nclasses, 0, 0, width, FALSE, "init", << >>) >>

\* Resnet12(width, channels, nclasses): its layers are not modelled
Resnet12(width, channels, nclasses) ==
    << Layer("body", "Resnet12", channels, nclasses, 0, 0, width, FALSE, "init", << >>) >>

\* str.lower(), on the characters that occur in the requested names
LowerChar(c) ==
    CASE c = "A" -> "a"
      [] c = "C" -> "c"
      [] c = "E" -> "e"
      [] c = "G" -> "g"
      [] c = "L" -> "l"
      [] c = "M" -> "m"
      [] c = "N" -> "n"
      [] c = "P" -> "p"
      [] c = "R" -> "r"
      [] c = "S" -> "s"
      [] c = "T" -> "t"
      [] c = "V" -> "v"
      [] c = "W" -> "w"
      [] c = "X" -> "x"
      [] OTHER -> c

Lower(name) == [i \in 1..Len(name) |-> LowerChar(name[i])]

resnet18 == << "r", "e", "s", "n", "e", "t", "1", "8" >>

resnet50 == << "r", "e", "s", "n", "e", "t", "5", "0" >>

wrn == << "w", "r", "n" >>

resnet12 == << "r", "e", "s", "n", "e", "t", "1", "2" >>

vgg16 == << "v", "g", "g", "1", "6" >>

conv4 == << "c", "o", "n", "v", "4" >>

mlp == << "m", "l", "p" >>

SupportedNames == { resnet18, resnet50, wrn, resnet12, vgg16, conv4, mlp }

\* the branches that pass exp_dict["backbone"]["imagenet_pretraining"] on
PretrainedNames == { resnet18, resnet50, vgg16 }

\* names a caller may put in exp_dict["backbone"]["name"]
RequestedNames ==
    SupportedNames \cup
    { << "R", "e", "s", "N", "e", "t", "1", "8" >>,
      << "R", "E", "S", "N", "E", "T", "5", "0" >>,
      << "V", "G", "G", "1", "6" >>,
      << "W", "R", "N" >>,
      << "a", "l", "e", "x", "n", "e", "t" >>,
      << "r", "e", "s", "n", "e", "t" >>,
      << "v", "g", "g", "1", "6", "_", "b", "n" >>,
      << >> }

\* the keys of exp_dict that get_backbone reads
ExpDicts ==
    [ name : RequestedNames,
      channels : 1..MaxChannels,
      imagenet_pretraining : BOOLEAN,
      num_classes : 1..MaxNumClasses ]

Return(arch, children) ==
    [at |-> "returned", module |-> [arch |-> arch, children |-> children],
     error |-> "none"]

Raise(error) == [at |-> "raised", module |-> NoModule, error |-> error]

Outcome(f, out) ==
    [at |-> out.at, exp_dict |-> f.exp_dict, module |-> out.module,
     error |-> out.error]

AssertSkipped(exp_dict) == TRUE

\* the condition of assert(not(exp_dict["backbone"]["imagenet_pretraining"]))
AssertNotPretrained(exp_dict) == ~ exp_dict.imagenet_pretraining

\* lines 75-81 and 83-89
ResnetBranch(arch, exp_dict, num_ftrs) ==
    LET backbone == TorchvisionResnet(exp_dict.imagenet_pretraining, num_ftrs)
        with_fc  == SetChild(backbone, "fc",
                             Linear("fc", num_ftrs, exp_dict.num_classes))
    IN  IF exp_dict.channels # 3
        THEN IF AssertNotPretrained(exp_dict)
             THEN Return(arch, SetChild(with_fc, "conv1",
                           Conv2d("conv1", exp_dict.channels, 64, 7, 2, 3, FALSE)))
             ELSE Raise("AssertionError")
        ELSE Return(arch, with_fc)

\* the head built at lines 105-112
Vgg16Output(nclasses) ==
    Sequential("1",
      << GAP("0"),
         Linear("1", 512, 4096),
         Block("2", "ReLU", "none"),
         Linear("3", 4096, 4096),
         Block("4", "ReLU", "none"),
         Linear("5", 4096, nclasses) >>)

\* children = list(backbone.children())[:-2], then the head is appended and
\* the list is wrapped in a Sequential, which names children by position
Vgg16Children(backbone, nclasses) ==
    LET kept == SubSeq(backbone, 1, Len(backbone) - 2)
        all  == Append(kept, Vgg16Output(nclasses))
    IN  [i \in 1..Len(all) |->
           IF i = Len(all) THEN all[i]
           ELSE [all[i] EXCEPT !.name = IF i = 1 THEN "0" ELSE "other"]]

\* lines 99-114
Vgg16Branch(exp_dict) ==
    LET backbone == TorchvisionVgg16Bn(exp_dict.imagenet_pretraining)
        features == Child(backbone, "features")
        first    == Conv2d("0", exp_dict.channels, 64, 3, 1, 1, TRUE)
        replaced == SetChild(backbone, "features",
                      [features EXCEPT !.modules = SetChild(@, "0", first)])
    IN  IF exp_dict.channels # 3
        THEN IF AssertNotPretrained(exp_dict)
             THEN Return("vgg16", Vgg16Children(replaced, exp_dict.num_classes))
             ELSE Raise("AssertionError")
        ELSE Return("vgg16", Vgg16Children(backbone, exp_dict.num_classes))

\* lines 91-94, with the defaults of exp_dict["backbone"].get
WrnBranch(exp_dict) ==
    LET backbone == WideResNet(28, 10, exp_dict.num_classes)
    IN  IF exp_dict.channels # 3
        THEN Return("wrn", SetChild(backbone, "conv0",
                      Conv2d("conv0", exp_dict.channels, 16, 3, 1, 1, FALSE)))
        ELSE Return("wrn", backbone)

GetBackboneResnet18 ==
    /\ factory.at = "called"
    /\ Lower(factory.exp_dict.name) = resnet18
    /\ factory' = Outcome(factory, ResnetBranch("resnet18", factory.exp_dict, 512))
    /\ UNCHANGED << trainvalVars, callVars, model, conv >>

GetBackboneResnet50 ==
    /\ factory.at = "called"
    /\ Lower(factory.exp_dict.name) = resnet50
    /\ factory' = Outcome(factory, ResnetBranch("resnet50", factory.exp_dict, 2048))
    /\ UNCHANGED << trainvalVars, callVars, model, conv >>

GetBackboneWrn ==
    /\ factory.at = "called"
    /\ Lower(factory.exp_dict.name) = wrn
    /\ factory' = Outcome(factory, WrnBranch(factory.exp_dict))
    /\ UNCHANGED << trainvalVars, callVars, model, conv >>

GetBackboneResnet12 ==
    /\ factory.at = "called"
    /\ Lower(factory.exp_dict.name) = resnet12
    /\ factory' = Outcome(factory,
                    Return("resnet12", Resnet12(1, factory.exp_dict.channels,
                                                factory.exp_dict.num_classes)))
    /\ UNCHANGED << trainvalVars, callVars, model, conv >>

GetBackboneVgg16 ==
    /\ factory.at = "called"
    /\ Lower(factory.exp_dict.name) = vgg16
    /\ factory' = Outcome(factory, Vgg16Branch(factory.exp_dict))
    /\ UNCHANGED << trainvalVars, callVars, model, conv >>

\* lines 115-121: the layers of the Conv4 are the subject of SpecConv4
GetBackboneConv4 ==
    /\ factory.at = "called"
    /\ Lower(factory.exp_dict.name) = conv4
    /\ factory' = Outcome(factory,
                    Return("conv4",
                      << Layer("body", "Conv4", factory.exp_dict.channels,
                               factory.exp_dict.num_classes, 0, 0, 0, TRUE,
                               "init", << >>) >>))
    /\ UNCHANGED << trainvalVars, callVars, model, conv >>

\* lines 122-126: the layers of the MLP are not modelled
GetBackboneMlp ==
    /\ factory.at = "called"
    /\ Lower(factory.exp_dict.name) = mlp
    /\ factory' = Outcome(factory,
                    Return("mlp",
                      << Layer("body", "MLP", factory.exp_dict.channels,
                               factory.exp_dict.num_classes, 0, 0, 0, TRUE,
                               "init", << >>) >>))
    /\ UNCHANGED << trainvalVars, callVars, model, conv >>

\* lines 127-128
GetBackboneOther ==
    /\ factory.at = "called"
    /\ Lower(factory.exp_dict.name) \notin SupportedNames
    /\ factory' = Outcome(factory, Raise("ValueError"))
    /\ UNCHANGED << trainvalVars, callVars, model, conv >>

InitBackbone ==
    /\ pc = "off"
    /\ max_epoch = 0
    /\ e = 0
    /\ s_epoch = 0
    /\ score_list = << >>
    /\ score_dict = << >>
    /\ model = NewModel
    /\ disk_model = NoFile
    /\ disk_scores = NoFile
    /\ pth_epoch = -1
    /\ crashes = 0
    /\ NoCall
    /\ NoConv
    /\ \E exp_dict \in ExpDicts :
         factory = [at |-> "called", exp_dict |-> exp_dict,
                    module |-> NoModule, error |-> "none"]

NextBackbone ==
    \/ GetBackboneResnet18
    \/ GetBackboneResnet50
    \/ GetBackboneWrn
    \/ GetBackboneResnet12
    \/ GetBackboneVgg16
    \/ GetBackboneConv4
    \/ GetBackboneMlp
    \/ GetBackboneOther

SpecBackbone == InitBackbone /\ [][NextBackbone]_vars

----------------------------------------------------------------------------
(* Claims about the checkpoint/resume controller *)

Last(sq) == sq[Len(sq)]

Running == pc \in {"loop", "train", "val", "append", "save_model", "save_scores"}

\* A resumed run that has not yet trained anything
JustResumed == pc \in {"loop", "train"} /\ s_epoch > 0 /\ e = s_epoch

\* C1 (as claimed): a resumed run never sees artifacts of different epochs:
\* when the loaded score history ends with epoch k, the loaded model.pth is
\* the one written at the end of epoch k.
C1_SameEpochOnResume ==
    JustResumed => pth_epoch = Last(score_list)["epoch"]

\* C2: at startup the first epoch to run is one past the last recorded epoch
\* of the persisted score history, and with no persisted history the history
\* starts empty and the first epoch is 0.
C2_FirstEpoch ==
    /\ (pc = "loop" /\ e = s_epoch) =>
          IF disk_scores.exists
          THEN /\ s_epoch = Last(disk_scores.data)["epoch"] + 1
               /\ score_list = disk_scores.data
          ELSE /\ s_epoch = 0
               /\ score_list = << >>
    /\ (pc = "train" /\ Len(score_list) = s_epoch) =>
          e = IF disk_scores.exists
              THEN Last(disk_scores.data)["epoch"] + 1
              ELSE 0

C2_Witness ==
    /\ pc = "train"
    /\ Len(score_list) = s_epoch
    /\ s_epoch = 1
    /\ crashes > 0

\* C3: whatever the interruptions and restarts, the run that completes has
\* exactly max_epoch records numbered 0..max_epoch-1 in order, on disk as in
\* memory, and no epoch is run again once it is in the persisted history.
C3_HistoryAsUninterrupted ==
    /\ pc = "done" =>
          /\ Len(score_list) = max_epoch
          /\ \A k \in 1..Len(score_list) : score_list[k]["epoch"] = k - 1
          /\ max_epoch > 0 => disk_scores = File(score_list)
    /\ (Running /\ pc # "loop" /\ disk_scores.exists) =>
          \A k \in 1..Len(disk_scores.data) : disk_scores.data[k]["epoch"] < e

C3_Witness ==
    /\ pc = "done"
    /\ max_epoch = 3
    /\ crashes = 2
    /\ s_epoch = 2
    /\ Len(score_list) = 3

C5_DiskAsCommitted ==
    (pc \in {"train", "val", "append"} /\ e > 0) =>
        /\ disk_model.exists
        /\ pth_epoch = e - 1
        /\ disk_scores.exists
        /\ Last(disk_scores.data)["epoch"] = e - 1

----------------------------------------------------------------------------
(* Claims about the episodic trainer/evaluator *)

Range(sq) == { sq[k] : k \in 1..Len(sq) }

IsPrefix(p, sq) == Len(p) <= Len(sq) /\ \A k \in 1..Len(p) : p[k] = sq[k]

Names(sq) == { sq[k][1] : k \in 1..Len(sq) }

\* The events of a train epoch over n episodes, each processed once, in order
RECURSIVE TrainTrace(_)
TrainTrace(n) ==
    IF n = 0 THEN << >>
    ELSE TrainTrace(n - 1) \o << <<"zero_grad", n>>, <<"forward", n>>,
                                 <<"loss", n>>, <<"backward", n>>,
                                 <<"optimizer.step", n>> >>

\* The events of the loop of an eval epoch over n well-shaped episodes
RECURSIVE ValTrace(_)
ValTrace(n) ==
    IF n = 0 THEN << >>
    ELSE ValTrace(n - 1) \o << <<"check", n>>, <<"forward", n>>,
                               <<"accumulate", n>> >>

RECURSIVE SumOver(_, _, _)
SumOver(ld, F(_), k) == IF k = 0 THEN 0 ELSE SumOver(ld, F, k - 1) + F(ld[k])

QuerySamples(ep) == ep.qs * ep.nclasses

\* sum_i loss_i * (query samples of i) / sum_i (query samples of i)
WeightedMeanLoss(ld) ==
    LET WLoss(ep) == ep.loss * QuerySamples(ep)
    IN  Rat(SumOver(ld, WLoss, Len(ld)), SumOver(ld, QuerySamples, Len(ld)))

\* C6: in an eval epoch an episode whose realized support or query count
\* differs from the declared one ends the call with an error right at its
\* check: the episode is neither embedded nor scored, nothing follows, the
\* scheduler is not stepped and no metrics are returned.
C6_MalformedEpisodeFatal ==
    call.fn = "val" =>
        \A j \in 1..Len(loader) :
            ( /\ <<"check", j>> \in Range(trace)
              /\ \/ loader[j].ss # loader[j].support_size
                 \/ loader[j].qs # loader[j].query_size ) =>
                /\ call.at = "raised"
                /\ call.i = j
                /\ trace[Len(trace)] = <<"check", j>>
                /\ <<"forward", j>> \notin Range(trace)
                /\ <<"accumulate", j>> \notin Range(trace)
                /\ "scheduler.step" \notin Names(trace)
                /\ model.scheduler = call.entry.scheduler
                /\ ret = NoResult

C6_Witness ==
    /\ call.fn = "val"
    /\ call.at = "raised"
    /\ call.i = 2
    /\ loader[2].ss = loader[2].support_size
    /\ loader[2].qs # loader[2].query_size
    /\ <<"accumulate", 1>> \in Range(trace)

\* C8: the plateau scheduler is stepped exactly once per eval epoch, after
\* the last episode, with the epoch's sample-weighted mean loss; a train epoch
\* never steps it and an eval epoch never steps the optimizer, so the learning
\* rate changes only at the end of an eval epoch.
C8_SchedulerOncePerEvalEpoch ==
    /\ call.fn = "train" =>
          /\ "scheduler.step" \notin Names(trace)
          /\ model.scheduler = call.entry.scheduler
          /\ model.optimizer.lr = call.entry.optimizer.lr
    /\ call.fn = "val" =>
          /\ "optimizer.step" \notin Names(trace)
          /\ model.weights = call.entry.weights
          /\ model.optimizer.steps = call.entry.optimizer.steps
          /\ call.at \notin {"return", "returned"} =>
                /\ "scheduler.step" \notin Names(trace)
                /\ model.scheduler = call.entry.scheduler
                /\ model.optimizer.lr = call.entry.optimizer.lr
          /\ call.at \in {"return", "returned"} =>
                /\ trace = ValTrace(Len(loader))
                             \o << <<"scheduler.step", Len(loader)>> >>
                /\ call.arg = WeightedMeanLoss(loader)
                /\ model.scheduler.last_epoch
                     = call.entry.scheduler.last_epoch + 1
                /\ model = SchedulerStep(
                              [call.entry EXCEPT !.training = FALSE],
                              WeightedMeanLoss(loader))

C8_Witness ==
    /\ call.fn = "val"
    /\ call.at = "returned"
    /\ Len(loader) = 2
    /\ loader[1].qs # loader[2].qs
    /\ loader[1].loss # loader[2].loss
    /\ model.optimizer.lr > call.entry.optimizer.lr

\* C9: a train epoch processes every episode of the loader exactly once, each
\* as zero_grad, forward, loss, backward, one optimizer step; an optimizer
\* step only ever sees the gradient of its own episode, and the epoch makes as
\* many optimizer steps as there are episodes.
C9_TrainEpochOrder ==
    call.fn = "train" =>
        /\ IsPrefix(trace, TrainTrace(Len(loader)))
        /\ call.at = "optimizer.step" => model.grad = << call.i >>
        /\ call.at \in {"return", "returned", "raised"} =>
              /\ trace = TrainTrace(Len(loader))
              /\ model.weights = call.entry.weights + Len(loader)
              /\ model.optimizer.steps
                   = call.entry.optimizer.steps + Len(loader)

C9_Witness ==
    /\ call.fn = "train"
    /\ call.at = "returned"
    /\ Len(loader) = 2
    /\ call.entry.grad # << >>

\* Per-episode accuracies a_i = correct_i / Q_i over the common denominator
\* D = prod_i Q_i, where Q_i is the number of query samples of episode i
RECURSIVE ProdQ(_, _)
ProdQ(ld, k) == IF k = 0 THEN 1 ELSE ProdQ(ld, k - 1) * QuerySamples(ld[k])

\* 100 * (1/n) * sum_i correct_i / Q_i
UnweightedAccuracy(ld) ==
    LET D == ProdQ(ld, Len(ld))
        Scaled(ep) == ep.correct * (D \div QuerySamples(ep))
    IN  Rat(100 * SumOver(ld, Scaled, Len(ld)), Len(ld) * D)

\* 100 * sum_i correct_i / sum_i Q_i
WeightedAccuracy(ld) ==
    LET Correct(ep) == ep.correct
    IN  Rat(100 * SumOver(ld, Correct, Len(ld)),
            SumOver(ld, QuerySamples, Len(ld)))

UnweightedMeanLoss(ld) ==
    LET Loss(ep) == ep.loss IN Rat(SumOver(ld, Loss, Len(ld)), Len(ld))

SameAccuracy(x, y) ==
    x.correct * QuerySamples(y) = y.correct * QuerySamples(x)

\* Every two episodes differ in query count and in accuracy
AllDifferent(ld) ==
    \A i, j \in 1..Len(ld) :
        i # j => /\ ld[i].qs # ld[j].qs
                 /\ ~SameAccuracy(ld[i], ld[j])

Aggregated == call.fn = "aggregate" /\ call.at = "validated"

\* C7 (as claimed): on any non-empty episode sequence the train epoch reports
\* unweighted per-episode means, the eval epoch sample-weighted ones, and the
\* two accuracies differ when the episodes differ in query count and accuracy.
C7_AggregationsDiffer ==
    Aggregated =>
        /\ ret.train.train_loss = UnweightedMeanLoss(loader)
        /\ ret.train.train_accuracy = UnweightedAccuracy(loader)
        /\ ret.val.val_loss = WeightedMeanLoss(loader)
        /\ ret.val.val_accuracy = WeightedAccuracy(loader)
        /\ AllDifferent(loader) /\ Len(loader) > 1 =>
              ret.train.train_accuracy # ret.val.val_accuracy

\* C7 (amended): as claimed, the two accuracies differing for every sequence
\* of exactly two episodes that differ in query count and accuracy.
C7_AggregationsDifferForTwo ==
    Aggregated =>
        /\ ret.train.train_loss = UnweightedMeanLoss(loader)
        /\ ret.train.train_accuracy = UnweightedAccuracy(loader)
        /\ ret.val.val_loss = WeightedMeanLoss(loader)
        /\ ret.val.val_accuracy = WeightedAccuracy(loader)
        /\ AllDifferent(loader) /\ Len(loader) = 2 =>
              ret.train.train_accuracy # ret.val.val_accuracy

C7_Witness ==
    /\ Aggregated
    /\ Len(loader) = 2
    /\ AllDifferent(loader)
    /\ loader[1].loss # loader[2].loss
    /\ ret.train.train_accuracy # ret.val.val_accuracy
    /\ ret.train.train_loss # ret.val.val_loss

----------------------------------------------------------------------------
(* Claims about the backbone factory *)

\* C10: the stride schedule of Conv4 depends only on min(height, width) // 4,
\* by the five-row table, and for an input whose smaller side is at least 4
\* the smaller side of the final feature map is at least 4.
C10_StrideSchedule ==
    LET side  == IF conv.in_h <= conv.in_w THEN conv.in_h ELSE conv.in_w
        ratio == side \div 4
        out   == IF conv.h <= conv.w THEN conv.h ELSE conv.w
    IN  conv.at = "built" =>
          /\ ratio >= 16 => conv.strides = << 2, 2, 2, 2 >>
          /\ ratio \in 8..15 => conv.strides = << 1, 2, 2, 2 >>
          /\ ratio \in 4..7 => conv.strides = << 1, 2, 2, 1 >>
          /\ ratio \in 2..3 => conv.strides = << 1, 2, 1, 1 >>
          /\ ratio < 2 => conv.strides = << 1, 1, 1, 1 >>
          /\ (conv.stage = 4 /\ side >= 4) => out >= 4

C10_Witness ==
    /\ conv.at = "built"
    /\ conv.stage = 4
    /\ conv.in_h = 64
    /\ conv.in_w = 66
    /\ conv.strides = << 2, 2, 2, 2 >>
    /\ conv.h = 4

----------------------------------------------------------------------------
(* Claims about the backbone factory *)

\* the first convolution of a returned module
FirstConv(m) ==
    IF m.arch = "vgg16" THEN m.children[1].modules[1] ELSE m.children[1]

WithFirstConv(m, layer) ==
    IF m.arch = "vgg16"
    THEN [m EXCEPT !.children[1].modules[1] = layer]
    ELSE [m EXCEPT !.children[1] = layer]

\* what the factory returns for the same request on 3-channel inputs
ThreeChannelModule(exp_dict) ==
    LET x    == [exp_dict EXCEPT !.channels = 3]
        name == Lower(x.name)
    IN  CASE name = resnet18 -> ResnetBranch("resnet18", x, 512).module
          [] name = resnet50 -> ResnetBranch("resnet50", x, 2048).module
          [] name = vgg16 -> Vgg16Branch(x).module
          [] OTHER -> NoModule

ConfigurationErrors == { "AssertionError", "ValueError" }

FactoryFailed ==
    /\ factory.at = "raised"
    /\ factory.module = NoModule
    /\ factory.error \in ConfigurationErrors

\* C11: once get_backbone has finished, (a) a request for resnet18, resnet50
\* or vgg16 with channels other than 3 and imagenet_pretraining set has
\* failed with an error and produced no module; (b) the same request with
\* imagenet_pretraining off has returned a module whose first convolution
\* is freshly initialised, takes the requested number of channels, and is
\* otherwise shaped like the 3-channel one, all other layers being those of
\* the module returned for 3 channels; (c) a request whose lower-cased name
\* is none of the supported names has failed with an error and no module.
C11_FactoryErrors ==
    LET x    == factory.exp_dict
        name == Lower(x.name)
        ref  == ThreeChannelModule(x)
    IN  factory.at \in { "returned", "raised" } =>
          /\ (name \in PretrainedNames /\ x.channels # 3
                /\ x.imagenet_pretraining) => FactoryFailed
          /\ (name \in PretrainedNames /\ x.channels # 3
                /\ ~ x.imagenet_pretraining) =>
               /\ factory.at = "returned"
               /\ factory.error = "none"
               /\ FirstConv(factory.module).kind = "Conv2d"
               /\ FirstConv(factory.module).nin = x.channels
               /\ FirstConv(factory.module).weights = "init"
               /\ FirstConv(factory.module) =
                     [FirstConv(ref) EXCEPT !.nin = x.channels]
               /\ WithFirstConv(factory.module, FirstConv(ref)) = ref
          /\ name \notin SupportedNames => FactoryFailed

C11_Witness ==
    /\ factory.at = "raised"
    /\ factory.error = "AssertionError"
    /\ factory.module = NoModule
    /\ Lower(factory.exp_dict.name) = resnet18
    /\ factory.exp_dict.name # resnet18
    /\ factory.exp_dict.channels = 1
    /\ factory.exp_dict.imagenet_pretraining

====
